---- MODULE Spec2Model ----
(***************************************************************************)
(* puper: selection of nodes of a parsed HTML tree by a list of selector   *)
(* tokens (cmd/root.go, rootCmd.Run) and their rendering as indented       *)
(* pseudo-markup (pkg/display/display.go).                                 *)
(*                                                                         *)
(* A tree is an arena: a sequence of node records indexed by node id; a    *)
(* node id stands for the *html.Node pointer of the source, so the same    *)
(* node selected twice is the same id twice.  Text is a sequence of        *)
(* one-character strings, so trimming is computed and not assumed.         *)
(***************************************************************************)
EXTENDS Integers, Sequences, FiniteSets, TLC

\* ------------------------------------------------------------------ bounds
MaxTokens == 3      \* longest selector token list drawn in Init
MaxLevel  == 2      \* deepest indent level handed to PrintNode directly
MaxAdvance == 2     \* most sleep intervals the clock advances per poll
MaxRuns   == 2      \* calls of Run on one Geckodriver

\* ------------------------------------------------------- generic helpers
RECURSIVE Flatten(_)
Flatten(ss) == IF ss = <<>> THEN <<>> ELSE Head(ss) \o Flatten(Tail(ss))

SeqsUpTo(S, n) == UNION { [1..k -> S] : k \in 0..n }

Count(s, x) == Cardinality({ i \in DOMAIN s : s[i] = x })

\* ------------------------------------------------------------ node model
Doc(kids)            == [Type |-> "Document", Data |-> "", Attr |-> <<>>, Text |-> <<>>, Kids |-> kids]
Elem(tag, attr, kids) == [Type |-> "Element", Data |-> tag, Attr |-> attr, Text |-> <<>>, Kids |-> kids]
Txt(chars)           == [Type |-> "Text", Data |-> "", Attr |-> <<>>, Text |-> chars, Kids |-> <<>>]
Cmt(chars)           == [Type |-> "Comment", Data |-> "", Attr |-> <<>>, Text |-> chars, Kids |-> <<>>]
A(k, v)              == [Key |-> k, Val |-> v]

\* <html><head></head><body>
\*   <div class="c" id="d1"><p> Hi\n</p><div><p></p></div></div><p></p>
\*   <span id="s" class="k"><b>x</b></span>
\*   <pre class="k" id="pr"> a\n<a href="u" title="t">b </a><br></pre>
\*   <!--c--><img src="i" id="im">  </body></html>
Tree1 ==
  << Doc(<<2>>),                                             \* 1
     Elem("html", <<>>, <<3, 4>>),                           \* 2
     Elem("head", <<>>, <<>>),                               \* 3
     Elem("body", <<>>, <<5, 10, 11, 14, 19, 20, 21>>),      \* 4
     Elem("div", <<A("class", "c"), A("id", "d1")>>, <<6, 8>>), \* 5
     Elem("p", <<>>, <<7>>),                                 \* 6
     Txt(<<" ", "H", "i", "\n">>),                           \* 7
     Elem("div", <<>>, <<9>>),                               \* 8
     Elem("p", <<>>, <<>>),                                  \* 9
     Elem("p", <<>>, <<>>),                                  \* 10
     Elem("span", <<A("id", "s"), A("class", "k")>>, <<12>>),\* 11
     Elem("b", <<>>, <<13>>),                                \* 12
     Txt(<<"x">>),                                           \* 13
     Elem("pre", <<A("class", "k"), A("id", "pr")>>, <<15, 16, 18>>), \* 14
     Txt(<<" ", "a", "\n">>),                                \* 15
     Elem("a", <<A("href", "u"), A("title", "t")>>, <<17>>), \* 16
     Txt(<<"b", " ">>),                                      \* 17
     Elem("br", <<>>, <<>>),                                 \* 18
     Cmt(<<"c">>),                                           \* 19
     Elem("img", <<A("src", "i"), A("id", "im")>>, <<>>),    \* 20
     Txt(<<" ", " ">>) >>                                    \* 21

\* <html><head></head><body><p><span>y</span></p><div></div></body></html>
Tree2 ==
  << Doc(<<2>>),
     Elem("html", <<>>, <<3, 4>>),
     Elem("head", <<>>, <<>>),
     Elem("body", <<>>, <<5, 8>>),
     Elem("p", <<>>, <<6>>),
     Elem("span", <<>>, <<7>>),
     Txt(<<"y">>),
     Elem("div", <<>>, <<>>) >>

\* <html><head></head><body><pre> c<pre>d\n</pre><span>e </span></pre>
\*   <p><span></span></p></body></html>
Tree3 ==
  << Doc(<<2>>),                                             \* 1
     Elem("html", <<>>, <<3, 4>>),                           \* 2
     Elem("head", <<>>, <<>>),                               \* 3
     Elem("body", <<>>, <<5, 11>>),                          \* 4
     Elem("pre", <<>>, <<6, 7, 9>>),                         \* 5
     Txt(<<" ", "c">>),                                      \* 6
     Elem("pre", <<>>, <<8>>),                               \* 7
     Txt(<<"d", "\n">>),                                     \* 8
     Elem("span", <<>>, <<10>>),                             \* 9
     Txt(<<"e", " ">>),                                      \* 10
     Elem("p", <<>>, <<12>>),                                \* 11
     Elem("span", <<>>, <<>>) >>                             \* 12

\* the trees ParseHTML yields
Trees == <<Tree1, Tree2, Tree3>>

\* A tree no parser yields, built by a caller of display.Print: void
\* elements that were given children.
Tree4 ==
  << Doc(<<2, 5>>),                                          \* 1
     Elem("img", <<>>, <<3>>),                               \* 2
     Elem("b", <<>>, <<4>>),                                 \* 3
     Txt(<<"z">>),                                           \* 4
     Elem("pre", <<>>, <<6>>),                               \* 5
     Elem("br", <<>>, <<7>>),                                \* 6
     Txt(<<"w">>) >>                                         \* 7

AllTrees == Trees \o << Tree4 >>

\* ----------------------------------------------------------------- state
VARIABLES
  pc,             \* position in rootCmd.Run / in the display entry point
  input,          \* kind of args[0]: "stdin", "file" or "url"
  tokens,         \* the value of the selector flag as given
  selectors,      \* the part of it the compile loop has not consumed yet
  doc,            \* index in Trees of the parsed document, 0 before parsing
  selectorFuncs,  \* compiled steps; Nil stands for a comma
  funcGenerator,  \* generator the next selector expression is compiled with
  execIdx,        \* number of selectorFuncs the execution loop has run
  selectedNodes,  \* accumulated result
  currNodes,      \* context nodes of the current branch
  attributes,     \* display.attributes
  span,           \* display.span
  printIdx,       \* number of selectedNodes handed to PrintNode
  output,         \* write events on the display's writer, in order
  failure,        \* which error path ended the run, "none" otherwise
  exitStatus,     \* process exit status, -1 while running
  dnode, dlevel,  \* arguments of a direct PrintNode / PrintPre call
  g,              \* the Geckodriver: its selectors and its stored page source
  run             \* the activation of Geckodriver.Run / webdriver

vars == << pc, input, tokens, selectors, doc, selectorFuncs, funcGenerator,
           execIdx, selectedNodes, currNodes, attributes, span, printIdx,
           output, failure, exitStatus, dnode, dlevel, g, run >>

\* everything but the Geckodriver and its activation
rest == << pc, input, tokens, selectors, doc, selectorFuncs, funcGenerator,
           execIdx, selectedNodes, currNodes, attributes, span, printIdx,
           output, failure, exitStatus, dnode, dlevel >>

root == 1
Node(n) == AllTrees[doc][n]
Nodes == DOMAIN AllTrees[doc]

\* ------------------------------------------------ selector compilation
\* ParseSelector and the three generators Select, SelectFromChildren and
\* SelectNextSibling, as the design's sections 4.1-4.3 describe them.
Malformed == {"[bad"}

ParseSelector(tok) == [err |-> tok \in Malformed, tag |-> tok]

Matches(n, sel) == Node(n).Type = "Element" /\ Node(n).Data = sel

RECURSIVE FindAll(_, _)
FindAll(n, sel) ==
  Flatten([ i \in DOMAIN Node(n).Kids |->
              LET c == Node(n).Kids[i]
              IN  (IF Matches(c, sel) THEN <<c>> ELSE <<>>) \o FindAll(c, sel) ])

NextSiblingOf(n) ==
  LET ps == { p \in Nodes : \E i \in DOMAIN Node(p).Kids : Node(p).Kids[i] = n }
  IN  IF ps = {} THEN 0
      ELSE LET p == CHOOSE q \in ps : TRUE
               i == CHOOSE j \in DOMAIN Node(p).Kids : Node(p).Kids[j] = n
           IN  IF i < Len(Node(p).Kids) THEN Node(p).Kids[i + 1] ELSE 0

Select(sel, nodes) ==
  Flatten([ i \in DOMAIN nodes |-> FindAll(nodes[i], sel) ])

SelectFromChildren(sel, nodes) ==
  Flatten([ i \in DOMAIN nodes |->
              SelectSeq(Node(nodes[i]).Kids, LAMBDA c : Matches(c, sel)) ])

SelectNextSibling(sel, nodes) ==
  Flatten([ i \in DOMAIN nodes |->
              LET s == NextSiblingOf(nodes[i])
              IN  IF s # 0 /\ Matches(s, sel) THEN <<s>> ELSE <<>> ])

\* a compiled SelectorFunc is the generator that built it and its selector
Nil == [gen |-> "nil", sel |-> ""]

Apply(f, nodes) ==
  CASE f.gen = "Select"             -> Select(f.sel, nodes)
    [] f.gen = "SelectFromChildren" -> SelectFromChildren(f.sel, nodes)
    [] f.gen = "SelectNextSibling"  -> SelectNextSibling(f.sel, nodes)

\* ------------------------------------- rootCmd.Run, selector compile loop
\* st = [selectorFuncs, funcGenerator, failed]
CompileInit == [selectorFuncs |-> <<>>, funcGenerator |-> "Select", failed |-> FALSE]

OnStar_AsSelector(st) ==
  [st EXCEPT !.selectorFuncs = Append(@, [gen |-> st.funcGenerator, sel |-> "p"]),
             !.funcGenerator = "Select"]

OnStar_ResetGen(st) == [st EXCEPT !.funcGenerator = "Select"]

OnStar(st) == st

OnChild_Eager(st) ==
  [st EXCEPT !.selectorFuncs = Append(@, [gen |-> "SelectFromChildren", sel |-> "html"])]

OnChild(st) == [st EXCEPT !.funcGenerator = "SelectFromChildren"]

OnSibling(st) == [st EXCEPT !.funcGenerator = "SelectNextSibling"]

OnComma(st) == [st EXCEPT !.selectorFuncs = Append(@, Nil)]

OnSelector_SkipBad(st, tok) ==
  IF ParseSelector(tok).err
  THEN st
  ELSE [st EXCEPT !.selectorFuncs =
                     Append(@, [gen |-> st.funcGenerator, sel |-> ParseSelector(tok).tag]),
                  !.funcGenerator = "Select"]

OnSelector_NoReset(st, tok) ==
  IF ParseSelector(tok).err
  THEN [st EXCEPT !.failed = TRUE]
  ELSE [st EXCEPT !.selectorFuncs =
                     Append(@, [gen |-> st.funcGenerator, sel |-> ParseSelector(tok).tag])]

OnSelector(st, tok) ==
  IF ParseSelector(tok).err
  THEN [st EXCEPT !.failed = TRUE]
  ELSE [st EXCEPT !.selectorFuncs =
                     Append(@, [gen |-> st.funcGenerator, sel |-> ParseSelector(tok).tag]),
                  !.funcGenerator = "Select"]

CompileToken(st, tok) ==
  CASE tok = "*" -> OnStar(st)
    [] tok = ">" -> OnChild(st)
    [] tok = "+" -> OnSibling(st)
    [] tok = "," -> OnComma(st)
    [] OTHER     -> OnSelector(st, tok)

\* the whole loop: it stops at the first token that fails to compile
RECURSIVE CompileAll(_, _)
CompileAll(st, toks) ==
  IF toks = <<>> \/ st.failed THEN st
  ELSE CompileAll(CompileToken(st, Head(toks)), Tail(toks))

\* ----------------------------------- rootCmd.Run, selector execution loop
\* xs = [selectedNodes, currNodes]
ExecInit == [selectedNodes |-> <<>>, currNodes |-> <<root>>]

AppendNodes_Dedup(sel, cur) ==
  sel \o SelectSeq(cur, LAMBDA n : \A i \in DOMAIN sel : sel[i] # n)

AppendNodes(sel, cur) == sel \o cur

ExecFunc(xs, f) ==
  IF f = Nil
  THEN [selectedNodes |-> AppendNodes(xs.selectedNodes, xs.currNodes),
        currNodes     |-> <<root>>]
  ELSE [xs EXCEPT !.currNodes = Apply(f, xs.currNodes)]

ExecFinish(xs) == AppendNodes(xs.selectedNodes, xs.currNodes)

RECURSIVE ExecAll(_, _)
ExecAll(xs, fs) ==
  IF fs = <<>> THEN xs ELSE ExecAll(ExecFunc(xs, Head(fs)), Tail(fs))

\* the node list rootCmd.Run selects for a token list that compiles
Compiles(toks) == ~CompileAll(CompileInit, toks).failed
RunNodes(toks) ==
  ExecFinish(ExecAll(ExecInit, CompileAll(CompileInit, toks).selectorFuncs))

\* --------------------------------------------------- pkg/display/display.go
\* One event per write on d.writer: the node it is written for, the kind of
\* write, the attribute index (0 if none) and the bytes written.
Ev(n, k, i, b) == [n |-> n, k |-> k, i |-> i, b |-> b]

Bytes(evs) == Flatten([ j \in DOMAIN evs |-> evs[j].b ])

VoidAtoms == { "area", "base", "br", "col", "command", "embed", "hr", "img",
               "input", "keygen", "link", "meta", "param", "source", "track",
               "wbr" }

IsVoidElement_NoBr(n) == Node(n).Data \in (VoidAtoms \ {"br"})

IsVoidElement(n) == Node(n).Data \in VoidAtoms

IsSpace(c) == c \in {" ", "\n", "\t", "\r"}

RECURSIVE TrimLeft(_)
TrimLeft(s) == IF s # <<>> /\ IsSpace(Head(s)) THEN TrimLeft(Tail(s)) ELSE s

RECURSIVE TrimRight(_)
TrimRight(s) ==
  IF s # <<>> /\ IsSpace(s[Len(s)]) THEN TrimRight(SubSeq(s, 1, Len(s) - 1)) ELSE s

TrimSpace_LeftOnly(s) == TrimLeft(s)

TrimSpace(s) == TrimRight(TrimLeft(s))

PrintIndent(level) == [ j \in 1..level |-> Ev(0, "indent", 0, <<" ">>) ]

AttrBytes(a) == <<" ", a.Key, "=", "\"", a.Val, "\"">>

\* display.go:75-81, the attribute loop of PrintNode
NodeAttrs(n) ==
  Flatten([ i \in DOMAIN Node(n).Attr |->
              LET a == Node(n).Attr[i]
              IN  IF ~attributes /\ a.Key # "href" /\ a.Key # "id"
                  THEN <<>>
                  ELSE <<Ev(n, "attr", i, AttrBytes(a))>> ])

\* display.go:128-136, the attribute loop of PrintPre
PreAttrs(n) ==
  IF attributes
  THEN Flatten([ i \in DOMAIN Node(n).Attr |->
                   LET a == Node(n).Attr[i]
                   IN  IF ~attributes /\ a.Key # "href" /\ a.Key # "id"
                       THEN <<>>
                       ELSE <<Ev(n, "attr", i, AttrBytes(a))>> ])
  ELSE <<>>

RECURSIVE PrintPre(_)
PrintPre(n) ==
  LET kids == Flatten([ i \in DOMAIN Node(n).Kids |-> PrintPre(Node(n).Kids[i]) ])
  IN  CASE Node(n).Type = "Text" ->
             <<Ev(n, "text", 0, Node(n).Text)>> \o kids
        [] Node(n).Type = "Element" ->
             IF Node(n).Data = "span" /\ ~span
             THEN (IF ~IsVoidElement(n) THEN kids ELSE <<>>)
             ELSE <<Ev(n, "open", 0, <<"<", Node(n).Data>>)>>
                  \o PreAttrs(n)
                  \o <<Ev(n, "openEnd", 0, <<">">>)>>
                  \o (IF ~IsVoidElement(n)
                      THEN kids \o
                           (IF Node(n).Data = "pre"
                            THEN <<Ev(n, "close", 0, <<"</", Node(n).Data, ">", "\n">>)>>
                            ELSE <<Ev(n, "close", 0, <<"</", Node(n).Data, ">">>)>>)
                      ELSE <<>>)
        [] Node(n).Type \in {"Doctype", "Document"} -> kids
        [] OTHER -> <<>>

RECURSIVE PrintNode(_, _)
PrintChildren(n, level) ==
  Flatten([ i \in DOMAIN Node(n).Kids |-> PrintNode(Node(n).Kids[i], level) ])

PrintNode(n, level) ==
  CASE Node(n).Type = "Text" ->
         LET s == TrimSpace(Node(n).Text)
         IN  IF s # <<>>
             THEN PrintIndent(level) \o <<Ev(n, "text", 0, s \o <<"\n">>)>>
             ELSE <<>>
    [] Node(n).Type = "Element" ->
         PrintIndent(level) \o
         (IF Node(n).Data = "pre" THEN PrintPre(n)
          ELSE IF Node(n).Data = "span" /\ ~span THEN PrintChildren(n, level)
          ELSE <<Ev(n, "open", 0, <<"<", Node(n).Data>>)>>
               \o NodeAttrs(n)
               \o <<Ev(n, "openEnd", 0, <<">", "\n">>)>>
               \o (IF ~IsVoidElement(n)
                   THEN PrintChildren(n, level + 1)
                        \o PrintIndent(level)
                        \o <<Ev(n, "close", 0, <<"</", Node(n).Data, ">", "\n">>)>>
                   ELSE <<>>))
    [] Node(n).Type \in {"Doctype", "Document"} -> PrintChildren(n, level)
    [] OTHER -> <<>>

\* --------------------------------------------- pkg/geckodriver/geckodriver.go
TimeoutDuration == 10000    \* milliseconds
SleepInterval   == 500      \* milliseconds

Pages == {"A", "B"}         \* page sources the browser may hand back

\* the zero Geckodriver and an activation that has not started
NewGeckodriver(sels) == [selectors |-> sels, source |-> ""]

Idle ==
  [pc |-> "idle", calls |-> 0, elapsed |-> 0, started |-> FALSE, kills |-> 0,
   webdrivers |-> 0, wd |-> "none", quits |-> 0, nilQuits |-> 0,
   err |-> "", panicked |-> FALSE, before |-> ""]

GetSource == g.source

\* the errors Run returns
RunErrors == { "Failed to start geckodriver", "Timeout", "Failed to get processes",
               "Failed to load URL", "Failed to find element",
               "Failed to get page source" }

TimedOut_Never(e) == FALSE

TimedOut(e) == e >= TimeoutDuration

\* beyond ClockCap every reading of the clock is past the timeout alike
ClockCap == TimeoutDuration + MaxAdvance * SleepInterval

Tick(e, a) == IF e + a * SleepInterval > ClockCap THEN ClockCap ELSE e + a * SleepInterval

\* a caller enters Run
GRun ==
  /\ run.pc \in {"idle", "returned"} /\ run.calls < MaxRuns
  /\ run' = [Idle EXCEPT !.pc = "start", !.calls = run.calls + 1, !.before = g.source]
  /\ UNCHANGED << g, rest >>

StartOk ==
  /\ run.pc = "start"
  /\ run' = [run EXCEPT !.pc = "check", !.started = TRUE, !.elapsed = 0]
  /\ UNCHANGED << g, rest >>

StartFail_DeferFirst ==
  /\ run.pc = "start"
  /\ run' = [run EXCEPT !.pc = "kill", !.err = "Failed to start geckodriver"]
  /\ UNCHANGED << g, rest >>

StartFail ==
  /\ run.pc = "start"
  /\ run' = [run EXCEPT !.pc = "returned", !.err = "Failed to start geckodriver"]
  /\ UNCHANGED << g, rest >>

PollTimeout ==
  /\ run.pc = "check" /\ TimedOut(run.elapsed)
  /\ run' = [run EXCEPT !.pc = "kill", !.err = "Timeout"]
  /\ UNCHANGED << g, rest >>

PollList ==
  /\ run.pc = "check" /\ ~TimedOut(run.elapsed)
  /\ run' = [run EXCEPT !.pc = "list"]
  /\ UNCHANGED << g, rest >>

ProcessesFail ==
  /\ run.pc = "list"
  /\ run' = [run EXCEPT !.pc = "kill", !.err = "Failed to get processes"]
  /\ UNCHANGED << g, rest >>

FirefoxSeen ==
  /\ run.pc = "list"
  /\ run' = [run EXCEPT !.pc = "NewRemote", !.webdrivers = @ + 1]
  /\ UNCHANGED << g, rest >>

FirefoxNotSeen ==
  /\ run.pc = "list"
  /\ run' = [run EXCEPT !.pc = "sleep"]
  /\ UNCHANGED << g, rest >>

PollSleep ==
  /\ run.pc = "sleep"
  /\ \E a \in 1..MaxAdvance :
       run' = [run EXCEPT !.pc = "check", !.elapsed = Tick(@, a)]
  /\ UNCHANGED << g, rest >>

NewRemoteOk ==
  /\ run.pc = "NewRemote"
  /\ run' = [run EXCEPT !.pc = "Get", !.wd = "client"]
  /\ UNCHANGED << g, rest >>

\* NewRemote hands back a nil client with its error; Quit is already deferred
NewRemoteFail ==
  /\ run.pc = "NewRemote"
  /\ run' = [run EXCEPT !.pc = "Quit", !.wd = "nil",
                        !.err = "Failed to create WebDriver client"]
  /\ UNCHANGED << g, rest >>

GetOk ==
  /\ run.pc = "Get"
  /\ run' = [run EXCEPT !.pc = "wait"]
  /\ UNCHANGED << g, rest >>

GetFail ==
  /\ run.pc = "Get"
  /\ run' = [run EXCEPT !.pc = "Quit", !.err = "Failed to load URL"]
  /\ UNCHANGED << g, rest >>

HasLocator ==
  Len(g.selectors) > 0 /\ g.selectors[1] # "*" /\ g.selectors[1] # ""

FindElementOk ==
  /\ run.pc = "wait" /\ HasLocator
  /\ run' = [run EXCEPT !.pc = "PageSource"]
  /\ UNCHANGED << g, rest >>

FindElementFail ==
  /\ run.pc = "wait" /\ HasLocator
  /\ run' = [run EXCEPT !.pc = "Quit", !.err = "Failed to find element"]
  /\ UNCHANGED << g, rest >>

WaitSleep ==
  /\ run.pc = "wait" /\ ~HasLocator
  /\ run' = [run EXCEPT !.pc = "PageSource"]
  /\ UNCHANGED << g, rest >>

PageSourceOk ==
  /\ run.pc = "PageSource"
  /\ \E page \in Pages : g' = [g EXCEPT !.source = page]
  /\ run' = [run EXCEPT !.pc = "Quit"]
  /\ UNCHANGED rest

\* g.source is assigned what PageSource returns with its error: ""
PageSourceFail ==
  /\ run.pc = "PageSource"
  /\ g' = [g EXCEPT !.source = ""]
  /\ run' = [run EXCEPT !.pc = "Quit", !.err = "Failed to get page source"]
  /\ UNCHANGED rest

\* the deferred wd.Quit(); on the nil client the call panics
DeferredQuit ==
  /\ run.pc = "Quit"
  /\ run' = IF run.wd = "nil"
            THEN [run EXCEPT !.pc = "kill", !.nilQuits = @ + 1, !.panicked = TRUE]
            ELSE [run EXCEPT !.pc = "kill", !.quits = @ + 1]
  /\ UNCHANGED << g, rest >>

\* the deferred command.Process.Kill(); it also runs while a panic unwinds
DeferredKill ==
  /\ run.pc = "kill"
  /\ run' = [run EXCEPT !.pc = IF run.panicked THEN "crashed" ELSE "returned",
                        !.kills = @ + 1]
  /\ UNCHANGED << g, rest >>

NextGecko ==
  \/ GRun \/ StartOk \/ StartFail
  \/ PollTimeout \/ PollList \/ ProcessesFail \/ FirefoxSeen \/ FirefoxNotSeen
  \/ PollSleep
  \/ NewRemoteOk \/ NewRemoteFail \/ GetOk \/ GetFail
  \/ FindElementOk \/ FindElementFail \/ WaitSleep
  \/ PageSourceOk \/ PageSourceFail
  \/ DeferredQuit \/ DeferredKill

\* a Geckodriver on its own: any selector list, Run called MaxRuns times
InitGecko ==
  /\ g \in { NewGeckodriver(sels) : sels \in {<<>>, <<"*">>, <<"p">>, <<"p", "div">>} }
  /\ run = Idle
  /\ pc = "gecko"
  /\ input = "url"
  /\ tokens = g.selectors
  /\ selectors = tokens
  /\ doc = 0
  /\ selectorFuncs = <<>>
  /\ funcGenerator = "Select"
  /\ execIdx = 0
  /\ selectedNodes = <<>>
  /\ currNodes = <<>>
  /\ attributes = FALSE
  /\ span = FALSE
  /\ printIdx = 0
  /\ output = <<>>
  /\ failure = "none"
  /\ exitStatus = -1
  /\ dnode = 0
  /\ dlevel = 0

SpecGecko == InitGecko /\ [][NextGecko]_vars

\* a call that has begun keeps running: Run has no blocking step of its own
FairSpecGecko == SpecGecko /\ WF_vars(NextGecko)

\* ------------------------------------------------------------ rootCmd.Run
Alphabet == {"*", ">", "+", ",", "div", "p", "[bad"}
Symbols  == {"*", ">", "+", ","}

ReturnedStatus == 0     \* Run returned: Execute sees err == nil
FatalStatus    == 1     \* handleError: log.Fatalf
PanicStatus    == 2     \* a goroutine panicked and nothing recovered it

Init ==
  /\ pc = "acquire"
  /\ input \in {"stdin", "file", "url"}
  /\ tokens \in SeqsUpTo(Alphabet, MaxTokens)
  /\ selectors = tokens
  /\ doc = 0
  /\ selectorFuncs = <<>>
  /\ funcGenerator = "Select"
  /\ execIdx = 0
  /\ selectedNodes = <<>>
  /\ currNodes = <<>>
  /\ attributes = FALSE
  /\ span = FALSE
  /\ printIdx = 0
  /\ output = <<>>
  /\ failure = "none"
  /\ exitStatus = -1
  /\ dnode = 0
  /\ dlevel = 0
  /\ g = NewGeckodriver(<<>>)
  /\ run = Idle

\* errors.HandleAsPuperError logs the reason and comes back to its caller
HandleAsPuperError(reason) == failure' = reason

\* a return statement of Run: cobra gets no error, the process ends normally
Return == pc' = "done" /\ exitStatus' = ReturnedStatus

handleError(reason) ==
  /\ failure' = reason
  /\ pc' = "done"
  /\ exitStatus' = FatalStatus

AcquireStdin ==
  /\ pc = "acquire" /\ input = "stdin"
  /\ pc' = "parse"
  /\ UNCHANGED << input, tokens, selectors, doc, selectorFuncs, funcGenerator,
                  execIdx, selectedNodes, currNodes, attributes, span,
                  printIdx, output, failure, exitStatus, dnode, dlevel, g, run >>

AcquireFile ==
  /\ pc = "acquire" /\ input = "file"
  /\ pc' = "parse"
  /\ UNCHANGED << input, tokens, selectors, doc, selectorFuncs, funcGenerator,
                  execIdx, selectedNodes, currNodes, attributes, span,
                  printIdx, output, failure, exitStatus, dnode, dlevel, g, run >>

AcquireFileFail ==
  /\ pc = "acquire" /\ input = "file"
  /\ handleError("open")
  /\ UNCHANGED << input, tokens, selectors, doc, selectorFuncs, funcGenerator,
                  execIdx, selectedNodes, currNodes, attributes, span,
                  printIdx, output, dnode, dlevel, g, run >>

\* g.Run() as its caller sees it: it has come back with nil and a page source,
AcquireUrl ==
  /\ pc = "acquire" /\ input = "url"
  /\ \E page \in Pages : g' = [NewGeckodriver(tokens) EXCEPT !.source = page]
  /\ run' = [Idle EXCEPT !.pc = "returned", !.calls = 1]
  /\ pc' = "parse"
  /\ UNCHANGED << input, tokens, selectors, doc, selectorFuncs, funcGenerator,
                  execIdx, selectedNodes, currNodes, attributes, span,
                  printIdx, output, failure, exitStatus, dnode, dlevel >>

AcquireUrlFail_NoReturn ==
  /\ pc = "acquire" /\ input = "url"
  /\ g' = NewGeckodriver(tokens)
  /\ \E e \in RunErrors : run' = [Idle EXCEPT !.pc = "returned", !.calls = 1, !.err = e]
  /\ HandleAsPuperError("geckodriver")
  /\ pc' = "parse"
  /\ UNCHANGED << input, tokens, selectors, doc, selectorFuncs, funcGenerator,
                  execIdx, selectedNodes, currNodes, attributes, span,
                  printIdx, output, exitStatus, dnode, dlevel >>

\* with an error,
AcquireUrlFail ==
  /\ pc = "acquire" /\ input = "url"
  /\ g' = NewGeckodriver(tokens)
  /\ \E e \in RunErrors : run' = [Idle EXCEPT !.pc = "returned", !.calls = 1, !.err = e]
  /\ HandleAsPuperError("geckodriver")
  /\ Return
  /\ UNCHANGED << input, tokens, selectors, doc, selectorFuncs, funcGenerator,
                  execIdx, selectedNodes, currNodes, attributes, span,
                  printIdx, output, dnode, dlevel >>

\* or not at all: the panic of webdriver() ends the process
AcquireUrlPanic ==
  /\ pc = "acquire" /\ input = "url"
  /\ g' = NewGeckodriver(tokens)
  /\ run' = [Idle EXCEPT !.pc = "crashed", !.calls = 1, !.panicked = TRUE,
                         !.err = "Failed to create WebDriver client"]
  /\ failure' = "panic"
  /\ pc' = "done"
  /\ exitStatus' = PanicStatus
  /\ UNCHANGED << input, tokens, selectors, doc, selectorFuncs, funcGenerator,
                  execIdx, selectedNodes, currNodes, attributes, span,
                  printIdx, output, dnode, dlevel >>

ParseOk ==
  /\ pc = "parse"
  /\ \E d \in DOMAIN Trees : doc' = d
  /\ pc' = "compile"
  /\ selectorFuncs' = CompileInit.selectorFuncs
  /\ funcGenerator' = CompileInit.funcGenerator
  /\ UNCHANGED << input, tokens, selectors, execIdx, selectedNodes, currNodes,
                  attributes, span, printIdx, output, failure, exitStatus,
                  dnode, dlevel, g, run >>

ParseFail ==
  /\ pc = "parse"
  /\ HandleAsPuperError("parse")
  /\ Return
  /\ UNCHANGED << input, tokens, selectors, doc, selectorFuncs, funcGenerator,
                  execIdx, selectedNodes, currNodes, attributes, span,
                  printIdx, output, dnode, dlevel, g, run >>

CurCompile ==
  [selectorFuncs |-> selectorFuncs, funcGenerator |-> funcGenerator, failed |-> FALSE]

\* one iteration of the compile loop that ends in the state st
CompileTo(st) ==
  /\ selectors' = Tail(selectors)
  /\ selectorFuncs' = st.selectorFuncs
  /\ funcGenerator' = st.funcGenerator
  /\ IF st.failed
     THEN HandleAsPuperError("selector") /\ Return
     ELSE UNCHANGED << pc, failure, exitStatus >>
  /\ UNCHANGED << input, tokens, doc, execIdx, selectedNodes, currNodes,
                  attributes, span, printIdx, output, dnode, dlevel, g, run >>

CompileStar ==
  /\ pc = "compile" /\ selectors # <<>> /\ Head(selectors) = "*"
  /\ CompileTo(OnStar(CurCompile))

CompileChild ==
  /\ pc = "compile" /\ selectors # <<>> /\ Head(selectors) = ">"
  /\ CompileTo(OnChild(CurCompile))

CompileSibling ==
  /\ pc = "compile" /\ selectors # <<>> /\ Head(selectors) = "+"
  /\ CompileTo(OnSibling(CurCompile))

CompileComma ==
  /\ pc = "compile" /\ selectors # <<>> /\ Head(selectors) = ","
  /\ CompileTo(OnComma(CurCompile))

CompileSelector ==
  /\ pc = "compile" /\ selectors # <<>> /\ Head(selectors) \notin Symbols
  /\ CompileTo(OnSelector(CurCompile, Head(selectors)))

CompileDone ==
  /\ pc = "compile" /\ selectors = <<>>
  /\ pc' = "exec"
  /\ execIdx' = 0
  /\ selectedNodes' = ExecInit.selectedNodes
  /\ currNodes' = ExecInit.currNodes
  /\ UNCHANGED << input, tokens, selectors, doc, selectorFuncs, funcGenerator,
                  attributes, span, printIdx, output, failure, exitStatus,
                  dnode, dlevel, g, run >>

ExecStep ==
  /\ pc = "exec" /\ execIdx < Len(selectorFuncs)
  /\ LET xs == ExecFunc([selectedNodes |-> selectedNodes, currNodes |-> currNodes],
                        selectorFuncs[execIdx + 1])
     IN  /\ selectedNodes' = xs.selectedNodes
         /\ currNodes' = xs.currNodes
  /\ execIdx' = execIdx + 1
  /\ UNCHANGED << pc, input, tokens, selectors, doc, selectorFuncs,
                  funcGenerator, attributes, span, printIdx, output, failure,
                  exitStatus, dnode, dlevel, g, run >>

ExecDone ==
  /\ pc = "exec" /\ execIdx = Len(selectorFuncs)
  /\ selectedNodes' =
       ExecFinish([selectedNodes |-> selectedNodes, currNodes |-> currNodes])
  /\ pc' = "flags"
  /\ UNCHANGED << input, tokens, selectors, doc, selectorFuncs, funcGenerator,
                  execIdx, currNodes, attributes, span, printIdx, output,
                  failure, exitStatus, dnode, dlevel, g, run >>

\* the two flags are read once selection is over; the builder negates them
ReadFlags ==
  /\ pc = "flags"
  /\ \E removeAttributes \in BOOLEAN, removeSpan \in BOOLEAN :
       /\ attributes' = ~removeAttributes
       /\ span' = ~removeSpan
  /\ pc' = "print"
  /\ printIdx' = 0
  /\ UNCHANGED << input, tokens, selectors, doc, selectorFuncs, funcGenerator,
                  execIdx, selectedNodes, currNodes, output, failure,
                  exitStatus, dnode, dlevel, g, run >>

\* display.Print: one iteration of its loop
PrintStep ==
  /\ pc = "print" /\ printIdx < Len(selectedNodes)
  /\ output' = output \o PrintNode(selectedNodes[printIdx + 1], 0)
  /\ printIdx' = printIdx + 1
  /\ UNCHANGED << pc, input, tokens, selectors, doc, selectorFuncs,
                  funcGenerator, execIdx, selectedNodes, currNodes, attributes,
                  span, failure, exitStatus, dnode, dlevel, g, run >>

PrintDone ==
  /\ pc = "print" /\ printIdx = Len(selectedNodes)
  /\ Return
  /\ UNCHANGED << input, tokens, selectors, doc, selectorFuncs, funcGenerator,
                  execIdx, selectedNodes, currNodes, attributes, span,
                  printIdx, output, failure, dnode, dlevel, g, run >>

Next ==
  \/ AcquireStdin \/ AcquireFile \/ AcquireFileFail
  \/ AcquireUrl \/ AcquireUrlFail \/ AcquireUrlPanic
  \/ ParseOk \/ ParseFail
  \/ CompileStar \/ CompileChild \/ CompileSibling \/ CompileComma
  \/ CompileSelector \/ CompileDone
  \/ ExecStep \/ ExecDone
  \/ ReadFlags \/ PrintStep \/ PrintDone

Spec == Init /\ [][Next]_vars

\* ------------------------------------- the serializer called on its own
\* PrintNode and PrintChildren are methods any caller may enter with any
\* node of a parsed tree and any indent level.
InitDisplay ==
  /\ pc = "display"
  /\ doc \in DOMAIN AllTrees
  /\ dnode \in DOMAIN AllTrees[doc]
  /\ dlevel \in 0..MaxLevel
  /\ attributes \in BOOLEAN
  /\ span \in BOOLEAN
  /\ input = "stdin"
  /\ tokens = <<>>
  /\ selectors = <<>>
  /\ selectorFuncs = <<>>
  /\ funcGenerator = "Select"
  /\ execIdx = 0
  /\ selectedNodes = <<>>
  /\ currNodes = <<>>
  /\ printIdx = 0
  /\ output = <<>>
  /\ failure = "none"
  /\ exitStatus = -1
  /\ g = NewGeckodriver(<<>>)
  /\ run = Idle

CallPrintNode ==
  /\ pc = "display"
  /\ output' = PrintNode(dnode, dlevel)
  /\ pc' = "PrintNode"
  /\ UNCHANGED << input, tokens, selectors, doc, selectorFuncs, funcGenerator,
                  execIdx, selectedNodes, currNodes, attributes, span,
                  printIdx, failure, exitStatus, dnode, dlevel, g, run >>

CallPrintChildren ==
  /\ pc = "display"
  /\ output' = PrintChildren(dnode, dlevel)
  /\ pc' = "PrintChildren"
  /\ UNCHANGED << input, tokens, selectors, doc, selectorFuncs, funcGenerator,
                  execIdx, selectedNodes, currNodes, attributes, span,
                  printIdx, failure, exitStatus, dnode, dlevel, g, run >>

NextDisplay == CallPrintNode \/ CallPrintChildren

SpecDisplay == InitDisplay /\ [][NextDisplay]_vars

\* =================================================================== claims
Remove(s, i) == SubSeq(s, 1, i - 1) \o SubSeq(s, i + 1, Len(s))

IsExpr(tok) == tok \notin Symbols

\* the execution loop has finished: selectedNodes is the selected node list
Selected == pc \in {"flags", "print"} \/ (pc = "done" /\ failure = "none" /\ doc # 0)

\* C1: for token lists A and B without a comma, the node list selected for
\* A ++ [","] ++ B is the node list selected for A followed by the node list
\* selected for B.
C1_UnionIsConcatenation ==
  Selected =>
    \A i \in DOMAIN tokens :
      (tokens[i] = "," /\ Count(tokens, ",") = 1) =>
        selectedNodes = RunNodes(SubSeq(tokens, 1, i - 1))
                        \o RunNodes(SubSeq(tokens, i + 1, Len(tokens)))

\* C2: a token list of `*` tokens only (the empty list included) selects
\* exactly [root].
C2_OnlyStarsSelectRoot ==
  (Selected /\ \A i \in DOMAIN tokens : tokens[i] = "*") => selectedNodes = <<root>>

C2_Witness ==
  /\ Selected
  /\ Len(tokens) = 2 /\ tokens[1] = "*" /\ tokens[2] = "*"
  /\ selectedNodes = <<root>>

\* C3: when some selector expression of the token list fails to compile, no
\* matching step runs, Print is never called and nothing is written.
C3_NoOutputAfterCompileError ==
  (\E i \in DOMAIN tokens : IsExpr(tokens[i]) /\ ParseSelector(tokens[i]).err) =>
    /\ pc \notin {"exec", "flags", "print"}
    /\ execIdx = 0
    /\ selectedNodes = <<>>
    /\ printIdx = 0
    /\ output = <<>>

C3_Witness ==
  /\ pc = "done" /\ failure = "selector"
  /\ Len(selectorFuncs) >= 1
  /\ output = <<>>

\* C4: a selector expression that fails to compile ends the command with a
\* non-zero exit status that differs from the status of other failures.
C4_SelectorErrorStatus ==
  (pc = "done" /\ failure = "selector") =>
    (exitStatus # 0 /\ exitStatus # FatalStatus)

\* C5: `>` and `+` set the search rule of the next selector expression only:
\* every compiled selector expression has the rule named by the last `>` or
\* `+` since the selector expression before it, Descendant if there is none,
\* and the pending rule after a selector expression is Descendant.
Expected(i) ==
  LET js == { j \in 1..(i - 1) : tokens[j] \notin {"*", ","} }
  IN  IF js = {} THEN "Select"
      ELSE LET j == CHOOSE k \in js : \A l \in js : l <= k
           IN  CASE tokens[j] = ">" -> "SelectFromChildren"
                 [] tokens[j] = "+" -> "SelectNextSibling"
                 [] OTHER           -> "Select"

C5_CombinatorAppliesToNextSelectorOnly ==
  (pc \in {"compile", "exec", "flags", "print"} \/ Selected) =>
    LET done  == Len(tokens) - Len(selectors)
        idx   == SelectSeq([ i \in 1..done |-> i ], LAMBDA i : IsExpr(tokens[i]))
        funcs == SelectSeq(selectorFuncs, LAMBDA f : f # Nil)
    IN  /\ Len(funcs) = Len(idx)
        /\ \A k \in DOMAIN funcs : funcs[k].gen = Expected(idx[k])
        /\ funcGenerator = Expected(done + 1)

C5_Witness ==
  /\ pc = "exec"
  /\ \E k \in DOMAIN selectorFuncs :
       /\ k < Len(selectorFuncs)
       /\ selectorFuncs[k].gen = "SelectFromChildren"
       /\ selectorFuncs[k + 1].gen = "Select"

\* C6: deleting any `*` token from the token list leaves the selected node
\* list unchanged (a `*` between a combinator and a selector expression keeps
\* the combinator pending).
C6_StarIsNoOp ==
  Selected =>
    \A i \in DOMAIN tokens :
      tokens[i] = "*" => RunNodes(Remove(tokens, i)) = selectedNodes

C6_Witness ==
  /\ Selected
  /\ tokens = <<">", "*", "p">>
  /\ selectorFuncs = << [gen |-> "SelectFromChildren", sel |-> "p"] >>

\* C7: a trailing `>` or `+` changes nothing: T ++ [">"] and T ++ ["+"]
\* select the node list T selects.
C7_TrailingCombinatorIsNoOp ==
  Selected =>
    /\ RunNodes(tokens \o << ">" >>) = selectedNodes
    /\ RunNodes(tokens \o << "+" >>) = selectedNodes
    /\ (tokens # <<>> /\ tokens[Len(tokens)] \in {">", "+"}) =>
         selectedNodes = RunNodes(SubSeq(tokens, 1, Len(tokens) - 1))

C7_Witness ==
  /\ Selected
  /\ Len(tokens) >= 2
  /\ tokens[Len(tokens)] \in {">", "+"}
  /\ IsExpr(tokens[1])
  /\ selectedNodes # <<>>

\* C8: the selected node list is the concatenation, in branch order, of what
\* each union branch matched, without deduplication, and Print serializes it
\* entry by entry in that order (a node of k branches is written k times).
RECURSIVE Branches(_)
Branches(fs) ==
  LET cut == { i \in DOMAIN fs : fs[i] = Nil }
  IN  IF cut = {} THEN << fs >>
      ELSE LET i == CHOOSE k \in cut : \A l \in cut : k <= l
           IN  << SubSeq(fs, 1, i - 1) >> \o Branches(SubSeq(fs, i + 1, Len(fs)))

RECURSIVE Matched(_, _)
Matched(nodes, b) ==
  IF b = <<>> THEN nodes ELSE Matched(Apply(Head(b), nodes), Tail(b))

C8_BranchOrderNoDedup ==
  Selected =>
    LET bs == Branches(selectorFuncs)
    IN  /\ selectedNodes = Flatten([ k \in DOMAIN bs |-> Matched(<<root>>, bs[k]) ])
        /\ pc \in {"print", "done"} =>
             output = Flatten([ k \in 1..printIdx |-> PrintNode(selectedNodes[k], 0) ])
        /\ pc = "done" => printIdx = Len(selectedNodes)

C8_Witness ==
  /\ pc = "done" /\ failure = "none" /\ doc # 0
  /\ Len(Branches(selectorFuncs)) = 2
  /\ \E n \in Nodes :
       /\ Count(selectedNodes, n) = 2
       /\ Cardinality({ j \in DOMAIN output : output[j].n = n /\ output[j].k = "open" }) = 2

\* C9: for every element whose opening tag is written, in normal and in
\* preformatted rendering, an attribute is written iff showAttributes is true
\* or its key is href or id.
C9_AttributeRule ==
  pc = "PrintNode" =>
    \A n \in Nodes : \A i \in DOMAIN Node(n).Attr :
      LET opens  == Cardinality({ j \in DOMAIN output :
                                    output[j].n = n /\ output[j].k = "open" })
          writes == Cardinality({ j \in DOMAIN output :
                                    output[j].n = n /\ output[j].k = "attr" /\ output[j].i = i })
      IN  writes = (IF attributes \/ Node(n).Attr[i].Key \in {"href", "id"}
                    THEN opens ELSE 0)

\* C10: with showInlineSpan false, serializing a span at indent level L
\* writes the same bytes as serializing its children at level L.
C10_SuppressedSpanIsTransparent ==
  (pc = "PrintNode" /\ Node(dnode).Type = "Element" /\ Node(dnode).Data = "span" /\ ~span) =>
    Bytes(output) = Bytes(PrintChildren(dnode, dlevel))

\* C11: under every policy, in normal and in preformatted rendering, an
\* element of the void set gets no closing tag and its children are not
\* visited.
C11_VoidSet == { "area", "base", "br", "col", "command", "embed", "hr", "img",
                 "input", "keygen", "link", "meta", "param", "source", "track",
                 "wbr" }

RECURSIVE Desc(_)
Desc(n) ==
  UNION { {Node(n).Kids[i]} \cup Desc(Node(n).Kids[i]) : i \in DOMAIN Node(n).Kids }

EventsOf(n, k) == { j \in DOMAIN output : output[j].n = n /\ output[j].k = k }

C11_VoidNeverClosed ==
  pc \in {"PrintNode", "PrintChildren"} =>
    \A n \in Nodes :
      (Node(n).Type = "Element" /\ Node(n).Data \in C11_VoidSet) =>
        /\ EventsOf(n, "close") = {}
        /\ (dnode \notin Desc(n) /\ ~(pc = "PrintChildren" /\ dnode = n)) =>
             \A j \in DOMAIN output : output[j].n \notin Desc(n)

C11_Witness ==
  /\ pc = "PrintNode" /\ doc = 4 /\ dnode = 1
  /\ EventsOf(2, "open") # {} /\ EventsOf(2, "close") = {}
  /\ EventsOf(6, "open") # {} /\ EventsOf(6, "close") = {}
  /\ \A j \in DOMAIN output : output[j].n \notin {3, 4, 7}

\* C12: a pre element is written with the payload of every descendant Text
\* node unchanged and in document order between its tags, and with no space
\* or newline of the serializer's own between `<pre ...>` and the final
\* `</pre>`.  (The separator in front of an attribute is not counted.)
RECURSIVE TextUnder(_)
TextUnder(n) ==
  Flatten([ i \in DOMAIN Node(n).Kids |->
              LET c == Node(n).Kids[i]
              IN  (IF Node(c).Type = "Text" THEN Node(c).Text ELSE <<>>) \o TextUnder(c) ])

C12_PreRoundTrip ==
  (pc = "PrintNode" /\ doc \in DOMAIN Trees
     /\ Node(dnode).Type = "Element" /\ Node(dnode).Data = "pre") =>
    LET ends  == { j \in DOMAIN output : output[j].k = "openEnd" }
        first == CHOOSE j \in ends : \A l \in ends : j <= l
        inner == SubSeq(output, first + 1, Len(output) - 1)
        texts == SelectSeq(inner, LAMBDA e : e.k = "text")
    IN  /\ ends # {}
        /\ output[Len(output)].k = "close" /\ output[Len(output)].n = dnode
        /\ Bytes(texts) = TextUnder(dnode)
        /\ \A j \in DOMAIN inner :
             inner[j].k \notin {"text", "attr"} =>
               \A b \in DOMAIN inner[j].b : inner[j].b[b] \notin {" ", "\n"}

\* C13: a Comment node reached in normal rendering at level L writes L
\* indentation characters and `<!--payload-->`; it is never dropped.
C13_CommentRendered ==
  (pc = "PrintNode" /\ Node(dnode).Type = "Comment") =>
    LET want == [ j \in 1..dlevel |-> " " ] \o <<"<!--">> \o Node(dnode).Text \o <<"-->">>
    IN  /\ Len(Bytes(output)) >= Len(want)
        /\ SubSeq(Bytes(output), 1, Len(want)) = want

\* C14: an element that is neither void, nor pre, nor a suppressed span and
\* is rendered at level L has its opening tag and its one closing tag each
\* preceded by exactly L indentation characters, the closing tag after
\* everything written for its children.
RECURSIVE LevelIn(_, _, _)
LevelIn(r, lvl, n) ==
  IF r = n THEN lvl
  ELSE IF Node(r).Type \in {"Text", "Comment"} THEN -1
  ELSE IF Node(r).Type = "Element" /\ (Node(r).Data = "pre" \/ Node(r).Data \in C11_VoidSet)
  THEN -1
  ELSE LET next == IF Node(r).Type = "Element" /\ ~(Node(r).Data = "span" /\ ~span)
                   THEN lvl + 1 ELSE lvl
           rs   == { LevelIn(Node(r).Kids[i], next, n) : i \in DOMAIN Node(r).Kids } \ {-1}
       IN  IF rs = {} THEN -1 ELSE CHOOSE x \in rs : TRUE

\* the number of indentation characters that end right before event j
IndentBefore(j) ==
  LET others == { i \in 1..(j - 1) : output[i].k # "indent" }
  IN  IF others = {} THEN j - 1
      ELSE (j - 1) - (CHOOSE i \in others : \A l \in others : l <= i)

C14_ElementIndentation ==
  pc = "PrintNode" =>
    \A n \in Nodes :
      LET L == LevelIn(dnode, dlevel, n)
      IN  (/\ L # -1
           /\ Node(n).Type = "Element"
           /\ Node(n).Data # "pre"
           /\ Node(n).Data \notin C11_VoidSet
           /\ ~(Node(n).Data = "span" /\ ~span)) =>
            /\ Cardinality(EventsOf(n, "open")) = 1
            /\ Cardinality(EventsOf(n, "close")) = 1
            /\ \A jo \in EventsOf(n, "open") : \A jc \in EventsOf(n, "close") :
                 /\ IndentBefore(jo) = L
                 /\ IndentBefore(jc) = L
                 /\ jo < jc
                 /\ \A j \in DOMAIN output :
                      output[j].n \in Desc(n) => (jo < j /\ j < jc)

\* C15: in normal rendering a Text node that is empty after trimming writes
\* nothing; any other writes indentLevel indentation characters, the trimmed
\* payload and one line break.
C15_Whitespace == {" ", "\n", "\t", "\r"}

C15_TextRendering ==
  (pc = "PrintNode" /\ Node(dnode).Type = "Text") =>
    LET raw  == Node(dnode).Text
        keep == { i \in DOMAIN raw : raw[i] \notin C15_Whitespace }
        lo   == CHOOSE i \in keep : \A l \in keep : i <= l
        hi   == CHOOSE i \in keep : \A l \in keep : l <= i
    IN  IF keep = {} THEN output = <<>>
        ELSE Bytes(output) = [ j \in 1..dlevel |-> " " ] \o SubSeq(raw, lo, hi) \o <<"\n">>

C15_Witness ==
  /\ pc = "PrintNode" /\ doc = 1 /\ dnode = 7 /\ dlevel = 2
  /\ Bytes(output) = <<" ", " ", "H", "i", "\n">>

\* C16: for a URL argument, g.Run() has returned before parsing, selector
\* compilation, matching or serialization begins, and when it returns an
\* error (or never returns) none of them is performed and nothing is written.
C16_NothingStarted ==
  /\ doc = 0
  /\ selectors = tokens
  /\ selectorFuncs = <<>>
  /\ execIdx = 0
  /\ selectedNodes = <<>>
  /\ printIdx = 0
  /\ output = <<>>

C16_AcquisitionFirst ==
  input = "url" =>
    /\ (pc = "acquire" \/ failure \in {"geckodriver", "panic"} \/ run.err # "")
         => C16_NothingStarted
    /\ (pc \in {"parse", "compile", "exec", "flags", "print"} \/ ~C16_NothingStarted)
         => (run.pc = "returned" /\ run.err = "" /\ failure \in {"none", "parse", "selector"})

C16_Witness ==
  /\ input = "url" /\ pc = "done" /\ failure = "geckodriver"
  /\ run.err = "Timeout"
  /\ Len(tokens) = 2 /\ tokens[1] = "p"
  /\ output = <<>>

\* C17: the readiness poll loop always ends: with the timeout error once the
\* elapsed time has reached the limit and no firefox was seen, with an error
\* when the process listing fails, else through webdriver() on the first poll
\* that sees firefox; webdriver() is never entered after the timeout error.
Polling == run.pc \in {"check", "list", "sleep"}

C17_PollLoopTerminates ==
  /\ Polling ~> ~Polling
  /\ [](run.err = "Timeout" => (run.elapsed >= TimeoutDuration /\ run.webdrivers = 0))
  /\ [](run.err = "Failed to get processes" => run.webdrivers = 0)
  /\ [][ (run.pc = "check" /\ run.elapsed >= TimeoutDuration)
           => (run'.err = "Timeout" /\ ~Polling') ]_vars
  /\ [][ (run.pc = "check" /\ run.elapsed < TimeoutDuration /\ run.calls = run'.calls)
           => run'.err = "" ]_vars
  /\ [][ (Polling /\ run'.webdrivers # run.webdrivers)
           => (run.pc = "list" /\ run'.pc = "NewRemote" /\ run.err = "") ]_vars

C17_Witness ==
  /\ run.pc = "returned" /\ run.err = "Timeout"
  /\ run.elapsed >= TimeoutDuration
  /\ run.webdrivers = 0

\* C18: once geckodriver was started it is killed exactly once on every path
\* that leaves Run, after webdriver() has finished; when the start fails no
\* kill is attempted.
InWebdriver == run.pc \in {"NewRemote", "Get", "wait", "PageSource", "Quit"}

C18_KilledExactlyOnce ==
  /\ run.kills <= 1
  /\ ~run.started => run.kills = 0
  /\ (Polling \/ InWebdriver) => run.kills = 0
  /\ run.pc \in {"returned", "crashed"} => run.kills = (IF run.started THEN 1 ELSE 0)

C18_Witness ==
  /\ run.pc = "returned" /\ run.err = "" /\ run.started
  /\ run.webdrivers = 1 /\ run.quits = 1
  /\ run.kills = 1

\* C19: webdriver() calls Quit exactly once on every return path and only on
\* a client NewRemote created; when NewRemote fails it returns its error
\* without calling a method of the absent client.
C19_QuitOnlyOnClient ==
  /\ run.nilQuits = 0
  /\ ~run.panicked
  /\ (run.pc \in {"kill", "returned"} /\ run.webdrivers = 1) =>
       /\ run.wd = "client" => run.quits = 1
       /\ run.wd = "nil" => (run.quits = 0 /\ run.err = "Failed to create WebDriver client")

\* C20: when Run returns an error, GetSource gives what it gave before the
\* call.
C20_SourceKeptOnError ==
  (run.pc = "returned" /\ run.err # "") => GetSource = run.before

====
